---- MODULE Spec2Model ----
(***************************************************************************)
(* Model of the two Streamlit applications of Getting_Started_Geospatial:  *)
(*   code/Part1_Streamlit_App.py  (NY taxi pickups: maps and time series)  *)
(*   code/Part2_Streamlit_App.py  (food delivery orders and sentiment)     *)
(*                                                                         *)
(* Numbers.  Metric values are integers of the model.  In Part 1 a value   *)
(* is a SUM of integer pickups; in Part 2 a value is kept in hundredths    *)
(* (the SQL rounds to two decimals).  A quantile at a multiple of 0.25 of  *)
(* integer data is a multiple of 1/4, so quantile breaks are kept times    *)
(* four, and every comparison of a value with a break multiplies the       *)
(* value by four.  Dates are day numbers, times of day are whole hours     *)
(* (st.time_input runs with step=3600).                                    *)
(*                                                                         *)
(* Steps.  main() is not atomic: every load_data / get_dataframe_from_sql  *)
(* call blocks in a Snowflake round trip and writes the process-wide       *)
(* st.cache_data memo when it returns, and every st.* call is a point      *)
(* where Streamlit can end the run for a rerun.  The loaders are bare      *)
(* @st.cache_data functions, so each call is wrapped in the spinner        *)
(* element: a rerun can end the run right before the call and right after  *)
(* it, when the memo is written and the script has not used the frame.     *)
(* Each action is the code between two such points; pc says where the      *)
(* script stands and phase how far a loader call has come.                 *)
(***************************************************************************)
EXTENDS Integers, Sequences, FiniteSets, TLC

VARIABLES
    app,      \* which program this behaviour runs: "part1", "part2", "mapper"
    rides,    \* table ny_taxi_rides_compare (Part 1): a set of rows
    orders,   \* table orders_reviews_sentiment_analysis (Part 2): a set of rows
    cache,    \* st.cache_data memo: query |-> the frame it returned
    sent,     \* the queries the Snowflake session has executed
    runs,     \* script runs started so far
    pc,       \* where the running script is: "idle" between runs, else the
              \* statement main() is about to execute
    phase,    \* at a call of a memoized loader: "run" before the call,
              \* "wait" while session.sql(query).to_pandas() blocks,
              \* "back" once the loader has returned; "run" elsewhere
    loaded,   \* the frame the loader has just handed to the script
    local,    \* main()'s local frames between two of its statements
    view,     \* what the current (or last) script run has put on the page
    first     \* (parameters, map) |-> the rows first displayed for them,
              \* and the run that displayed them

vars ==
    <<app, rides, orders, cache, sent, runs, pc, phase, loaded, local, view, first>>

\* ---------------------------------------------------------------- bounds

MaxRides == 2    \* rows of the rides table
MaxRuns == 3     \* script runs of one session in the idempotence check

\* The domains of the rides table and of the sidebar's inputs: two days
\* and two hours give every order of a row against a window (before it,
\* in it, on its last day after midnight, after it; hours in reverse).
Days == 1..2
Hours == 0..1
Cells == {"a", "b"}
Counts == 0..1   \* pickups and forecast of one row

\* ------------------------------------------------------- small arithmetic

Min(S) == CHOOSE x \in S : \A y \in S : x <= y
Max(S) == CHOOSE x \in S : \A y \in S : x >= y

\* Sum of column col over a set of rows.
RECURSIVE SumCol(_, _)
SumCol(rows, col) ==
    IF rows = {} THEN 0
    ELSE LET r == CHOOSE x \in rows : TRUE
         IN  r[col] + SumCol(rows \ {r}, col)

\* The COUNT column of a frame as an ascending sequence (with repeats).
RECURSIVE SortedCounts(_)
SortedCounts(frame) ==
    IF frame = {} THEN <<>>
    ELSE LET r == CHOOSE x \in frame : \A y \in frame : x.COUNT <= y.COUNT
         IN  <<r.COUNT>> \o SortedCounts(frame \ {r})

\* ------------------------------------------ pandas Series.quantile (x 4)

\* QuantileX4 interpolating from the upper neighbour instead of the lower.
QuantileX4_upper(s, k) ==
    LET pos4 == (Len(s) - 1) * k
        lo == pos4 \div 4
        frac4 == pos4 % 4
    IN  IF frac4 = 0 THEN 4 * s[lo + 1]
        ELSE 4 * s[lo + 2] + frac4 * (s[lo + 2] - s[lo + 1])

\* Series.quantile(k/4), linear interpolation, of the ascending sequence s,
\* times four: position (n-1)*k/4, value s[lo] + frac*(s[lo+1] - s[lo]).
QuantileX4(s, k) ==
    LET pos4 == (Len(s) - 1) * k
        lo == pos4 \div 4
        frac4 == pos4 % 4
    IN  IF frac4 = 0 THEN 4 * s[lo + 1]
        ELSE 4 * s[lo + 1] + frac4 * (s[lo + 2] - s[lo + 1])

\* df[count_col].quantile([0, 0.25, 0.5, 0.75, 1]) of a non-empty frame.
quantile(frame) ==
    LET s == SortedCounts(frame)
    IN  [k \in 1..5 |-> QuantileX4(s, k - 1)]

\* --------------------------------------------- branca cm.LinearColormap

\* COLOR_PALETTE, each name as branca parses it (0..255 per channel).
COLOR_PALETTE ==
    << <<128, 128, 128>>,    \* gray
       <<0, 0, 255>>,        \* blue
       <<0, 128, 0>>,        \* green
       <<255, 255, 0>>,      \* yellow
       <<255, 165, 0>>,      \* orange
       <<255, 0, 0>> >>      \* red

\* int(u * 255.9999) for the channel u = (x/d)/255, x/d in [0, 255]:
\* 255.9999/255 = 1 + 3333/850000, so the floor is x \div d, plus one when
\* the fraction left over reaches 1 - (x/d)*3333/850000.
ByteOf(x, d) ==
    LET q == x \div d
        r == x % d
    IN  IF 3333 * x >= 850000 * (d - r) THEN q + 1 ELSE q

\* rgb_bytes_tuple with the lower clamp strict: a value equal to index[0]
\* is no longer given the first colour.
rgb_bytes_tuple_strict(colors, index, v4) ==
    IF v4 < index[1] THEN
        [j \in 1..3 |-> ByteOf(colors[1][j], 1)]
    ELSE IF v4 >= index[Len(index)] THEN
        [j \in 1..3 |-> ByteOf(colors[Len(colors)][j], 1)]
    ELSE
        LET i == Cardinality({u \in 1..Len(index) : index[u] < v4})
            d == IF index[i] < index[i + 1] THEN index[i + 1] - index[i] ELSE 1
            n == IF index[i] < index[i + 1] THEN v4 - index[i] ELSE 1
        IN  [j \in 1..3 |->
                ByteOf((d - n) * colors[i][j] + n * colors[i + 1][j], d)]

\* LinearColormap(colors, index=index).rgb_bytes_tuple(v), v4 = 4*v:
\* at or below index[0] the first colour, at or above index[-1] the last,
\* otherwise between colours i-1 and i, i the number of thresholds below v.
rgb_bytes_tuple(colors, index, v4) ==
    IF v4 <= index[1] THEN
        [j \in 1..3 |-> ByteOf(colors[1][j], 1)]
    ELSE IF v4 >= index[Len(index)] THEN
        [j \in 1..3 |-> ByteOf(colors[Len(colors)][j], 1)]
    ELSE
        LET i == Cardinality({u \in 1..Len(index) : index[u] < v4})
            d == IF index[i] < index[i + 1] THEN index[i + 1] - index[i] ELSE 1
            n == IF index[i] < index[i + 1] THEN v4 - index[i] ELSE 1
        IN  [j \in 1..3 |->
                ByteOf((d - n) * colors[i][j] + n * colors[i + 1][j], d)]

\* df[count_col].apply(linear_map.rgb_bytes_tuple): adds the COLOR column.
apply_color(frame, index) ==
    {[H3 |-> r.H3, COUNT |-> r.COUNT,
      COLOR |-> rgb_bytes_tuple(COLOR_PALETTE, index, 4 * r.COUNT)] : r \in frame}

\* ============================================================ Part 1 ====

\* One row of ny_taxi_rides_compare: pickup_time = (day, hour).
RideRows ==
    [day : Days, hour : Hours, h3 : Cells, pickups : Counts, forecast : Counts]

\* The sets of at most n elements of S.
RECURSIVE UpTo(_, _)
UpTo(S, n) ==
    IF n = 0 THEN {{}}
    ELSE LET smaller == UpTo(S, n - 1)
         IN  smaller \cup {t \cup {x} : t \in smaller, x \in S}

RideTables == UpTo(RideRows, MaxRides)

METRICS_QUERY == [kind |-> "METRICS"]
AVG_COORDINATE_QUERY == [kind |-> "AVG_COORDINATE"]
TIME_SERIES_QUERY == [kind |-> "TIME_SERIES"]

\* BASE_QUERY_TEMPLATE.format(h3_column='h3', agg_function='SUM', ...).
BASE_QUERY_TEMPLATE(metric, start_date, end_date, start_time, end_time) ==
    [kind |-> "BASE", metric |-> metric,
     start_date |-> start_date, end_date |-> end_date,
     start_time |-> start_time, end_time |-> end_time]

\* WHERE pickup_time BETWEEN DATE(start_date) AND DATE(end_date)
\*   AND TIME(pickup_time) BETWEEN start_time AND end_time.
\* pickup_time is a timestamp: each DATE bound is compared as that day's
\* midnight, so the upper bound admits the end date at 00:00 only.
BaseWhere(e, q) ==
    /\ (e.day > q.start_date \/ (e.day = q.start_date /\ e.hour >= 0))
    /\ (e.day < q.end_date \/ (e.day = q.end_date /\ e.hour <= 0))
    /\ q.start_time <= e.hour
    /\ e.hour <= q.end_time

\* SELECT h3, SUM(metric) AS COUNT ... WHERE ... GROUP BY 1.
BaseResult(table, q) ==
    LET kept == {e \in table : BaseWhere(e, q)}
    IN  {[H3 |-> c, COUNT |-> SumCol({e \in kept : e.h3 = c}, q.metric)] :
            c \in {e.h3 : e \in kept}}

\* session.sql(query).to_pandas() for the queries of Part 1.
Part1Sql(table, q) ==
    CASE q.kind = "BASE" -> BaseResult(table, q)
      [] q.kind = "TIME_SERIES" ->
            {[PICKUP_TIME |-> <<e.day, e.hour>>, H3 |-> e.h3,
              FORECAST |-> e.forecast, PICKUPS |-> e.pickups] : e \in table}
      [] q.kind = "METRICS" -> {[H3 |-> c] : c \in Cells}
      [] OTHER -> {[LAT |-> 0, LON |-> 0]}

\* ------------------------------------------------------ st.cache_data

\* @st.cache_data load_data(query): a query seen before is answered from
\* the memo, any other is executed by the session.
load_data(c, table, q) ==
    IF q \in DOMAIN c THEN c[q] ELSE Part1Sql(table, q)

\* cache_data handing out its own frame, so that the rows the script
\* filters away are gone from the memo too.
cache_data_shared(c, q, returned, shown) ==
    IF q \in DOMAIN c THEN c ELSE c @@ (q :> shown)

\* The memo after a call for q that handed `returned` to the script, which
\* went on to display `shown`: st.cache_data keeps its own copy of what the
\* function returned, whatever the script does to the frame it was given.
cache_data(c, q, returned, shown) ==
    IF q \in DOMAIN c THEN c ELSE c @@ (q :> returned)

\* ------------------------------------------------- generate_color_map

generate_color_map(df) ==
    IF df = {} THEN df
    ELSE apply_color(df, quantile(df))

\* The frames generate_color_map hands to Series.quantile.
QuantileCalls(df) == IF df = {} THEN {} ELSE {df}

\* ---------------------------------------------- Part 1 render_pydeck_chart

\* get_elevation=f"COUNT / {max_count}" if max_count > 0 else 0
Part1_get_elevation(chart_df) ==
    LET max_count == Max({r.COUNT : r \in chart_df})
    IN  IF max_count > 0 THEN [divide |-> TRUE, by |-> max_count]
        ELSE [divide |-> FALSE, by |-> 0]

\* render_pydeck_chart without its empty check.
Part1_render_pydeck_chart_unguarded(chart_df) ==
    [state |-> "map", data |-> chart_df,
     get_elevation |-> IF chart_df = {} THEN [divide |-> FALSE, by |-> 0]
                       ELSE Part1_get_elevation(chart_df)]

Part1_render_pydeck_chart(chart_df) ==
    IF chart_df = {} THEN
        [state |-> "warning", data |-> {}]
    ELSE
        [state |-> "map", data |-> chart_df,
         get_elevation |-> Part1_get_elevation(chart_df)]

\* ---------------------------------------------------- Part 1 time series

\* The window with its last hour left out.
InTimeSeriesWindow_exclusive(r, start_date, end_date, start_time, end_time) ==
    /\ r.PICKUP_TIME[1] >= start_date
    /\ r.PICKUP_TIME[1] <= end_date
    /\ r.PICKUP_TIME[2] >= start_time
    /\ r.PICKUP_TIME[2] < end_time

\* is_in_date_range & is_in_time_range of main, on one row.
InTimeSeriesWindow(r, start_date, end_date, start_time, end_time) ==
    /\ r.PICKUP_TIME[1] >= start_date
    /\ r.PICKUP_TIME[1] <= end_date
    /\ r.PICKUP_TIME[2] >= start_time
    /\ r.PICKUP_TIME[2] <= end_time

\* groupby(...).max() in place of .sum().
groupby_max(df) ==
    {[PICKUP_TIME |-> t,
      PICKUPS |-> Max({r.PICKUPS : r \in {x \in df : x.PICKUP_TIME = t}}),
      FORECAST |-> Max({r.FORECAST : r \in {x \in df : x.PICKUP_TIME = t}})] :
        t \in {r.PICKUP_TIME : r \in df}}

\* df.groupby("PICKUP_TIME", as_index=False)[["PICKUPS", "FORECAST"]].sum()
groupby_sum(df) ==
    {[PICKUP_TIME |-> t,
      PICKUPS |-> SumCol({r \in df : r.PICKUP_TIME = t}, "PICKUPS"),
      FORECAST |-> SumCol({r \in df : r.PICKUP_TIME = t}, "FORECAST")] :
        t \in {r.PICKUP_TIME : r \in df}}

time_series(df_time_series, start_date, end_date, start_time, end_time, selected_h3) ==
    LET df_filtered ==
            {r \in df_time_series :
                InTimeSeriesWindow(r, start_date, end_date, start_time, end_time)}
    IN  IF selected_h3 = "All" THEN groupby_sum(df_filtered)
        ELSE groupby_sum({r \in df_filtered : r.H3 = selected_h3})

\* if df_agg.empty: st.warning(...) else: render_plotly_line_chart(df_agg)
render_time_series(df_agg) ==
    IF df_agg = {} THEN [state |-> "warning", data |-> {}]
    ELSE [state |-> "chart", data |-> df_agg]

\* ============================================================ Part 2 ====

MaxScore == 2    \* a review score of one order is NULL or in 0..MaxScore
MaxOrders == 2   \* rows of the orders table

Points == {0, 1}
NULL == -1

\* One row of orders_reviews_sentiment_analysis (one score column stands
\* for the four the sidebar offers: the code treats them alike).
OrderRows ==
    [DELIVERY_LOCATION : Points, RESTAURANT_LOCATION : Points,
     SENTIMENT_SCORE : {NULL} \cup (0..MaxScore)]

OrderTables == UpTo(OrderRows, MaxOrders)

\* H3_POINT_TO_CELL_STRING(TO_GEOGRAPHY(p), resolution): the two points of
\* the model share every cell coarser than 9.
H3_POINT_TO_CELL_STRING(p, resolution) ==
    IF resolution >= 9 THEN <<resolution, p>> ELSE <<resolution, 0>>

\* ROUND(x, 2) of x = num/den >= 0, in hundredths (half away from zero).
Round2(num, den) == (200 * num + den) \div (2 * den)

\* The query text fetch_h3_data builds, by its varying parts.
H3Query(resolution, dimension, measure) ==
    IF measure = "ORDERS" THEN
        [kind |-> "H3", dimension |-> dimension, resolution |-> resolution,
         aggregation_sql |-> "COUNT", of |-> "*", where_not_null |-> ""]
    ELSE
        [kind |-> "H3", dimension |-> dimension, resolution |-> resolution,
         aggregation_sql |-> "AVG", of |-> measure, where_not_null |-> measure]

\* The rows the query's WHERE clause keeps.
WhereRows(table, q) ==
    IF q.where_not_null = "" THEN table
    ELSE {o \in table : o[q.where_not_null] # NULL}

\* The aggregate of one group.
Aggregate(group, q) ==
    IF q.aggregation_sql = "COUNT"
    THEN Round2(Cardinality(group), 1)
    ELSE Round2(SumCol(group, q.of), Cardinality(group))

\* session.sql(query).to_pandas(): SELECT cell, aggregate FROM orders
\* [WHERE ...] GROUP BY 1.
Part2Sql(table, q) ==
    LET kept == WhereRows(table, q)
        cell(o) == H3_POINT_TO_CELL_STRING(o[q.dimension], q.resolution)
    IN  {[H3 |-> c, COUNT |-> Aggregate({o \in kept : cell(o) = c}, q)] :
            c \in {cell(o) : o \in kept}}

\* @st.cache_data get_dataframe_from_sql(query).
get_dataframe_from_sql(c, table, q) ==
    IF q \in DOMAIN c THEN c[q] ELSE Part2Sql(table, q)

\* score_range=None (and any falsy value) leaves the frame as it is.
NoRange == <<>>

\* df[(df["COUNT"] >= score_range[0]) & (df["COUNT"] <= score_range[1])]
FilterScore(df, score_range) ==
    IF score_range = NoRange THEN df
    ELSE {r \in df : r.COUNT >= score_range[1] /\ r.COUNT <= score_range[2]}

\* fetch_h3_data taking the quantiles after the score filter.
fetch_h3_data_late(raw, score_range) ==
    IF FilterScore(raw, score_range) = {} THEN [df |-> {}, quantiles |-> <<>>]
    ELSE [df |-> FilterScore(raw, score_range),
          quantiles |-> quantile(FilterScore(raw, score_range))]

\* fetch_h3_data, given the frame the query returned: (df, quantiles).
fetch_h3_data(raw, score_range) ==
    IF raw = {} THEN [df |-> {}, quantiles |-> <<>>]
    ELSE [df |-> FilterScore(raw, score_range), quantiles |-> quantile(raw)]

\* get_elevation="COUNT / " + str(df["COUNT"].max()) if not df.empty else "0"
Part2_get_elevation(df) ==
    IF df # {} THEN [divide |-> TRUE, by |-> Max({r.COUNT : r \in df})]
    ELSE [divide |-> FALSE, by |-> 0]

Part2_render_pydeck_chart(df, quantiles) ==
    IF df = {} THEN
        [state |-> "warning", data |-> {}]
    ELSE
        LET colored == apply_color(df, quantiles)
        IN  [state |-> "map", data |-> colored,
             get_elevation |-> Part2_get_elevation(colored)]

Part2Params(resolution, dimension, measure, score_range) ==
    [page |-> "part2", resolution |-> resolution, dimension |-> dimension,
     measure |-> measure, score_range |-> score_range]

\* ============================================================ script runs

\* Filter by H3 if selected.
FilterH3(df, selected_h3) ==
    IF selected_h3 = "All" THEN df ELSE {r \in df : r.H3 = selected_h3}

Part1Params(date_range, time_range, selected_h3) ==
    [page |-> "part1", date_range |-> date_range, time_range |-> time_range,
     selected_h3 |-> selected_h3]

NoView == [state |-> "none"]
NoFrames == <<>>

\* The map queries of the running script's parameters.
pickups_query ==
    BASE_QUERY_TEMPLATE("pickups", view.params.date_range[1], view.params.date_range[2],
                        view.params.time_range[1], view.params.time_range[2])
forecast_query ==
    BASE_QUERY_TEMPLATE("forecast", view.params.date_range[1], view.params.date_range[2],
                        view.params.time_range[1], view.params.time_range[2])

\* ------------------------------------------------- the memoized loaders

\* The statements at which the script calls its memoized loader, and the
\* query it calls it with there.
LoadPoints ==
    {"metrics", "avg_coordinate", "pickups", "forecast", "time_series", "fetch"}

QueryAt(at) ==
    CASE at = "metrics" -> METRICS_QUERY
      [] at = "avg_coordinate" -> AVG_COORDINATE_QUERY
      [] at = "pickups" -> pickups_query
      [] at = "forecast" -> forecast_query
      [] at = "time_series" -> TIME_SERIES_QUERY
      [] at = "fetch" -> H3Query(view.params.resolution, view.params.dimension,
                                 view.params.measure)

\* What the script makes of the frame the loader hands it at a statement:
\* it colours and filters the map frames, and leaves the others as they are
\* (PICKUP_TIME of the time series is only re-parsed).
ShownAt(at, raw) ==
    CASE at \in {"pickups", "forecast"} ->
            FilterH3(generate_color_map(raw), view.params.selected_h3)
      [] at = "fetch" -> fetch_h3_data(raw, view.params.score_range).df
      [] OTHER -> raw

\* The loader misses the memo: session.sql(query) goes to Snowflake and
\* the script blocks in to_pandas().
SendQuery ==
    /\ pc \in LoadPoints
    /\ phase = "run"
    /\ QueryAt(pc) \notin DOMAIN cache
    /\ sent' = sent \cup {QueryAt(pc)}
    /\ phase' = "wait"
    /\ UNCHANGED <<app, rides, orders, cache, runs, pc, loaded, local, view, first>>

\* The loader returns, from the memo or with the answer of the round
\* trip, which st.cache_data memoizes.
LoaderReturns ==
    /\ pc \in LoadPoints
    /\ phase = "wait" \/ (phase = "run" /\ QueryAt(pc) \in DOMAIN cache)
    /\ LET query == QueryAt(pc)
           raw == IF app = "part1" THEN load_data(cache, rides, query)
                  ELSE get_dataframe_from_sql(cache, orders, query)
       IN  /\ cache' = cache_data(cache, query, raw, ShownAt(pc, raw))
           /\ loaded' = raw
    /\ phase' = "back"
    /\ UNCHANGED <<app, rides, orders, sent, runs, pc, local, view, first>>

\* ------------------------------------------------------------ Part 1 main

\* Streamlit starts a script run of Part 1.
MainStart ==
    /\ app = "part1"
    /\ pc = "idle"
    /\ runs' = runs + 1
    /\ view' = [state |-> "started"]
    /\ pc' = "title"
    /\ UNCHANGED <<app, rides, orders, cache, sent, phase, loaded, local, first>>

\* st.title, st.write
MainTitle ==
    /\ app = "part1"
    /\ pc = "title"
    /\ view' = [state |-> "title"]
    /\ pc' = "metrics"
    /\ UNCHANGED <<app, rides, orders, cache, sent, runs, phase, loaded, local, first>>

\* df_metrics = load_data(METRICS_QUERY)
MainLoadMetrics ==
    /\ app = "part1"
    /\ pc = "metrics"
    /\ phase = "back"
    /\ phase' = "run"
    /\ loaded' = NoFrames
    /\ pc' = "avg_coordinate"
    /\ UNCHANGED <<app, rides, orders, cache, sent, runs, local, view, first>>

\* df_avg_lat_long = load_data(AVG_COORDINATE_QUERY)
MainLoadAvgCoordinate ==
    /\ app = "part1"
    /\ pc = "avg_coordinate"
    /\ phase = "back"
    /\ phase' = "run"
    /\ loaded' = NoFrames
    /\ pc' = "sidebar"
    /\ UNCHANGED <<app, rides, orders, cache, sent, runs, local, view, first>>

\* The length check made only after the first map query has gone out.
MainStop_late(date_range, time_range, selected_h3) ==
    /\ app = "part1"
    /\ pc = "sidebar"
    /\ Len(date_range) # 2
    /\ sent' = sent \cup {BASE_QUERY_TEMPLATE("pickups", date_range[1], date_range[1],
                                              time_range[1], time_range[2])}
    /\ view' = [params |-> Part1Params(date_range, time_range, selected_h3),
                state |-> "stopped"]
    /\ pc' = "idle"
    /\ UNCHANGED <<app, rides, orders, cache, runs, phase, loaded, local, first>>

\* render_sidebar, then
\* if len(date_range) != 2: st.warning(...); st.stop()
MainStop(date_range, time_range, selected_h3) ==
    /\ app = "part1"
    /\ pc = "sidebar"
    /\ Len(date_range) # 2
    /\ view' = [params |-> Part1Params(date_range, time_range, selected_h3),
                state |-> "stopped"]
    /\ pc' = "idle"
    /\ UNCHANGED <<app, rides, orders, cache, sent, runs, phase, loaded, local, first>>

\* render_sidebar with a two-date range: main goes on to build the two
\* map queries.
MainSidebar(date_range, time_range, selected_h3) ==
    /\ app = "part1"
    /\ pc = "sidebar"
    /\ Len(date_range) = 2
    /\ view' = [params |-> Part1Params(date_range, time_range, selected_h3),
                state |-> "running",
                quantiled |-> {}]
    /\ pc' = "pickups"
    /\ UNCHANGED <<app, rides, orders, cache, sent, runs, phase, loaded, local, first>>

\* df_pickups = generate_color_map(load_data(pickups_query))
MainLoadPickups ==
    /\ app = "part1"
    /\ pc = "pickups"
    /\ phase = "back"
    /\ local' = [df_pickups |-> generate_color_map(loaded)]
    /\ view' = [view EXCEPT !.quantiled = @ \cup QuantileCalls(loaded)]
    /\ phase' = "run"
    /\ loaded' = NoFrames
    /\ pc' = "forecast"
    /\ UNCHANGED <<app, rides, orders, cache, sent, runs, first>>

\* df_forecast = generate_color_map(load_data(forecast_query)), then the
\* H3 filter of both frames.
MainLoadForecast ==
    /\ app = "part1"
    /\ pc = "forecast"
    /\ phase = "back"
    /\ local' = [df_pickups |->
                     FilterH3(local.df_pickups, view.params.selected_h3),
                 df_forecast |->
                     FilterH3(generate_color_map(loaded), view.params.selected_h3)]
    /\ view' = [view EXCEPT !.quantiled = @ \cup QuantileCalls(loaded)]
    /\ phase' = "run"
    /\ loaded' = NoFrames
    /\ pc' = "map_pickups"
    /\ UNCHANGED <<app, rides, orders, cache, sent, runs, first>>

\* The rows a map displays, remembered for the parameters the first time,
\* with the run that displayed them.
Remember(f, params, name, rows) ==
    IF <<params, name>> \in DOMAIN f THEN f
    ELSE f @@ (<<params, name>> :> [rows |-> rows, run |-> runs])

\* st.columns(2); with col1: render_pydeck_chart(df_pickups, ...)
MainDisplayPickups ==
    /\ app = "part1"
    /\ pc = "map_pickups"
    /\ LET shown == Part1_render_pydeck_chart(local.df_pickups)
       IN  /\ view' = [state |-> view.state, params |-> view.params,
                       quantiled |-> view.quantiled, pickups |-> shown]
           /\ first' = Remember(first, view.params, "pickups", shown.data)
    /\ pc' = "map_forecast"
    /\ UNCHANGED <<app, rides, orders, cache, sent, runs, phase, loaded, local>>

\* with col2: render_pydeck_chart(df_forecast, ...)
MainDisplayForecast ==
    /\ app = "part1"
    /\ pc = "map_forecast"
    /\ LET shown == Part1_render_pydeck_chart(local.df_forecast)
       IN  /\ view' = [state |-> view.state, params |-> view.params,
                       quantiled |-> view.quantiled, pickups |-> view.pickups,
                       forecast |-> shown]
           /\ first' = Remember(first, view.params, "forecast", shown.data)
    /\ local' = NoFrames
    /\ pc' = "time_series"
    /\ UNCHANGED <<app, rides, orders, cache, sent, runs, phase, loaded>>

\* st.divider, st.subheader, df_time_series = load_data(TIME_SERIES_QUERY),
\* then the filters and the groupby.
MainLoadTimeSeries ==
    /\ app = "part1"
    /\ pc = "time_series"
    /\ phase = "back"
    /\ local' = [df_agg |->
           time_series(loaded,
                       view.params.date_range[1], view.params.date_range[2],
                       view.params.time_range[1], view.params.time_range[2],
                       view.params.selected_h3)]
    /\ phase' = "run"
    /\ loaded' = NoFrames
    /\ pc' = "chart"
    /\ UNCHANGED <<app, rides, orders, cache, sent, runs, view, first>>

\* The warning or the line chart; the run is complete.
MainDisplaySeries ==
    /\ app = "part1"
    /\ pc = "chart"
    /\ view' = [state |-> "rendered", params |-> view.params,
                quantiled |-> view.quantiled, pickups |-> view.pickups,
                forecast |-> view.forecast,
                series |-> render_time_series(local.df_agg)]
    /\ local' = NoFrames
    /\ pc' = "idle"
    /\ UNCHANGED <<app, rides, orders, cache, sent, runs, phase, loaded, first>>

\* ------------------------------------------------------------ Part 2 main

\* Streamlit starts a script run of Part 2.
Part2Start ==
    /\ app = "part2"
    /\ pc = "idle"
    /\ runs' = runs + 1
    /\ view' = [state |-> "started"]
    /\ pc' = "sidebar"
    /\ UNCHANGED <<app, rides, orders, cache, sent, phase, loaded, local, first>>

\* st.title, then
\* resolution, dimension, measure, score_range, is_3d = render_sidebar()
Part2Sidebar(resolution, dimension, measure, score_range) ==
    /\ app = "part2"
    /\ pc = "sidebar"
    /\ view' = [params |-> Part2Params(resolution, dimension, measure, score_range),
                state |-> "running"]
    /\ pc' = "fetch"
    /\ UNCHANGED <<app, rides, orders, cache, sent, runs, phase, loaded, local, first>>

\* df, quantiles = fetch_h3_data(resolution, dimension, measure, score_range)
Part2Fetch ==
    /\ app = "part2"
    /\ pc = "fetch"
    /\ phase = "back"
    /\ local' = fetch_h3_data(loaded, view.params.score_range)
    /\ view' = [params |-> view.params, state |-> view.state,
                quantiled |-> QuantileCalls(loaded)]
    /\ phase' = "run"
    /\ loaded' = NoFrames
    /\ pc' = "render"
    /\ UNCHANGED <<app, rides, orders, cache, sent, runs, first>>

\* render_pydeck_chart(df, quantiles, is_3d); the run is complete.
Part2Render ==
    /\ app = "part2"
    /\ pc = "render"
    /\ LET shown == Part2_render_pydeck_chart(local.df, local.quantiles)
       IN  /\ view' = [state |-> "rendered", params |-> view.params,
                       quantiled |-> view.quantiled, map |-> shown]
           /\ first' = Remember(first, view.params, "map", shown.data)
    /\ local' = NoFrames
    /\ pc' = "idle"
    /\ UNCHANGED <<app, rides, orders, cache, sent, runs, phase, loaded>>

\* ------------------------------------------------------------- reruns

\* The statements that are, or begin with, a st.* call: the titles, the
\* sidebars, the map columns, st.divider and st.subheader, the chart or
\* warning of the series, Part 2's map; and every call of a memoized
\* loader, whose spinner is a page element put up before the call and
\* taken down after it.
RerunPoints ==
    {"title", "metrics", "avg_coordinate", "sidebar", "pickups", "forecast",
     "map_pickups", "map_forecast", "time_series", "chart", "fetch", "render"}

\* Streamlit ends the run at a st.* call for a rerun (a widget changed),
\* unless the script is blocked in a query.  The memo keeps what the run
\* has loaded and the page what it has drawn.
Rerun ==
    /\ pc \in RerunPoints
    /\ phase # "wait"
    /\ pc' = "idle"
    /\ phase' = "run"
    /\ loaded' = NoFrames
    /\ local' = NoFrames
    /\ UNCHANGED <<app, rides, orders, cache, sent, runs, view, first>>

\* ------------------------------------------------------------ the inputs

\* What st.date_input (one date picked so far, or a range in order) and
\* the two st.time_input hand to main.
DateInputs ==
    {<<d>> : d \in Days} \cup {r \in Days \X Days : r[1] <= r[2]}
TimeInputs == Hours \X Hours
H3Options == {"All"} \cup Cells

\* What Part 2's sidebar hands to main: the slider's resolutions, and the
\* arguments fetch_h3_data takes (score_range is optional).
SliderResolutions == 6..9
DimensionInputs == {"DELIVERY_LOCATION", "RESTAURANT_LOCATION"}
MeasureInputs == {"ORDERS", "SENTIMENT_SCORE"}
ScoreStops == {0, 100, 200}
ScoreRangeInputs ==
    {NoRange} \cup {<<lo, hi>> : lo \in ScoreStops, hi \in ScoreStops}

InitP1 ==
    /\ app = "part1"
    /\ rides \in RideTables
    /\ orders = {}
    /\ cache = NoFrames
    /\ sent = {}
    /\ runs = 0
    /\ pc = "idle"
    /\ phase = "run"
    /\ loaded = NoFrames
    /\ local = NoFrames
    /\ view = NoView
    /\ first = NoFrames

InitP2 ==
    /\ app = "part2"
    /\ rides = {}
    /\ orders \in OrderTables
    /\ cache = NoFrames
    /\ sent = {}
    /\ runs = 0
    /\ pc = "idle"
    /\ phase = "run"
    /\ loaded = NoFrames
    /\ local = NoFrames
    /\ view = NoView
    /\ first = NoFrames

\* ==================================================== the quantile mapper

MaxLen == 5      \* values of one series handed to the mapper
MaxQ == 4        \* each of them is in 0..MaxQ

RECURSIVE SeqsUpTo(_, _)
SeqsUpTo(S, n) ==
    IF n = 0 THEN {<<>>}
    ELSE LET shorter == SeqsUpTo(S, n - 1)
         IN  shorter \cup {Append(t, x) : t \in shorter, x \in S}

\* A frame whose COUNT column is the sequence values.
FrameOf(values) == {[H3 |-> i, COUNT |-> values[i]] : i \in 1..Len(values)}

\* quantiles = df[count_col].quantile([0, 0.25, 0.5, 0.75, 1]) of the
\* series generate_color_map was called with (past its empty check).
ComputeBreaks ==
    /\ app = "mapper"
    /\ view.state = "series"
    /\ view.values # <<>>
    /\ view' = [state |-> "breaks", values |-> view.values,
                breaks |-> quantile(FrameOf(view.values))]
    /\ UNCHANGED <<app, rides, orders, cache, sent, runs, pc, phase, loaded, local,
                   first>>

\* linear_map.rgb_bytes_tuple(v) of the colour map built on those breaks.
ColorFor(v) ==
    /\ app = "mapper"
    /\ view.state \in {"breaks", "color"}
    /\ view' = [state |-> "color", values |-> view.values, breaks |-> view.breaks,
                value |-> v,
                color |-> rgb_bytes_tuple(COLOR_PALETTE, view.breaks, 4 * v)]
    /\ UNCHANGED <<app, rides, orders, cache, sent, runs, pc, phase, loaded, local,
                   first>>

InitQ ==
    /\ app = "mapper"
    /\ rides = {}
    /\ orders = {}
    /\ cache = NoFrames
    /\ sent = {}
    /\ runs = 0
    /\ pc = "idle"
    /\ phase = "run"
    /\ loaded = NoFrames
    /\ local = NoFrames
    /\ \E values \in SeqsUpTo(0..MaxQ, MaxLen) :
           view = [state |-> "series", values |-> values]
    /\ first = NoFrames

NextQ ==
    \/ ComputeBreaks
    \/ \E v \in 0..(MaxQ + 1) : ColorFor(v)

\* The mapper alone: a series, its breaks, the colour of a value.
SpecQ == InitQ /\ [][NextQ]_vars

\* ======================================================== specifications

\* Either program, one script run of a fresh session, over every table
\* and every input.
Init == InitP1 \/ InitP2

\* The first script run of a session.
Fresh == runs < 1

Next ==
    \/ Fresh /\ MainStart
    \/ Fresh /\ Part2Start
    \/ SendQuery
    \/ LoaderReturns
    \/ MainTitle
    \/ MainLoadMetrics
    \/ MainLoadAvgCoordinate
    \/ \E date_range \in DateInputs, time_range \in TimeInputs,
          selected_h3 \in H3Options :
            MainStop(date_range, time_range, selected_h3)
    \/ \E date_range \in DateInputs, time_range \in TimeInputs,
          selected_h3 \in H3Options :
            MainSidebar(date_range, time_range, selected_h3)
    \/ MainLoadPickups
    \/ MainLoadForecast
    \/ MainDisplayPickups
    \/ MainDisplayForecast
    \/ MainLoadTimeSeries
    \/ MainDisplaySeries
    \/ \E resolution \in SliderResolutions, dimension \in DimensionInputs,
          measure \in MeasureInputs, score_range \in ScoreRangeInputs :
            Part2Sidebar(resolution, dimension, measure, score_range)
    \/ Part2Fetch
    \/ Part2Render
    \/ Rerun

Spec == Init /\ [][Next]_vars

\* The same, with the score ranges Part 2's sidebar delivers: none for the
\* order count, and for a score the two ends of the slider, in order.
UIScoreRanges(measure) ==
    IF measure = "ORDERS" THEN {NoRange}
    ELSE {r \in ScoreRangeInputs : r # NoRange /\ r[1] <= r[2]}

NextUI ==
    \/ Fresh /\ MainStart
    \/ Fresh /\ Part2Start
    \/ SendQuery
    \/ LoaderReturns
    \/ MainTitle
    \/ MainLoadMetrics
    \/ MainLoadAvgCoordinate
    \/ \E date_range \in DateInputs, time_range \in TimeInputs,
          selected_h3 \in H3Options :
            MainStop(date_range, time_range, selected_h3)
    \/ \E date_range \in DateInputs, time_range \in TimeInputs,
          selected_h3 \in H3Options :
            MainSidebar(date_range, time_range, selected_h3)
    \/ MainLoadPickups
    \/ MainLoadForecast
    \/ MainDisplayPickups
    \/ MainDisplayForecast
    \/ MainLoadTimeSeries
    \/ MainDisplaySeries
    \/ \E resolution \in SliderResolutions, dimension \in DimensionInputs,
          measure \in MeasureInputs :
            \E score_range \in UIScoreRanges(measure) :
                Part2Sidebar(resolution, dimension, measure, score_range)
    \/ Part2Fetch
    \/ Part2Render
    \/ Rerun

SpecUI == Init /\ [][NextUI]_vars

\* Either program, MaxRuns script runs of one session, complete or ended
\* for a rerun: what a run shows after earlier runs have filled the memo.
IdemDateInputs == {<<1, 1>>}
IdemTimeInputs == {<<0, 1>>}
IdemResolutions == {9}
IdemScoreRanges == {NoRange, <<0, 100>>, <<100, 200>>}

NextIdem ==
    \/ runs < MaxRuns /\ MainStart
    \/ runs < MaxRuns /\ Part2Start
    \/ SendQuery
    \/ LoaderReturns
    \/ MainTitle
    \/ MainLoadMetrics
    \/ MainLoadAvgCoordinate
    \/ \E date_range \in IdemDateInputs, time_range \in IdemTimeInputs,
          selected_h3 \in H3Options :
            MainSidebar(date_range, time_range, selected_h3)
    \/ MainLoadPickups
    \/ MainLoadForecast
    \/ MainDisplayPickups
    \/ MainDisplayForecast
    \/ MainLoadTimeSeries
    \/ MainDisplaySeries
    \/ \E resolution \in IdemResolutions, measure \in MeasureInputs,
          score_range \in IdemScoreRanges :
            Part2Sidebar(resolution, "DELIVERY_LOCATION", measure, score_range)
    \/ Part2Fetch
    \/ Part2Render
    \/ Rerun

\* Tables whose rows all lie in the first window above, so that what a run
\* shows depends on the rows' values and on the filter.
InitIdem ==
    \/ /\ InitP1
       /\ \A e \in rides : e.day = 1 /\ e.hour = 0
    \/ /\ InitP2
       /\ \A o \in orders : o.RESTAURANT_LOCATION = 0

SpecIdem == InitIdem /\ [][NextIdem]_vars

\* ================================================================ claims

\* What the tables hold for the last run's parameters, read off the tables
\* themselves (not through the memo).
Rendered1 == app = "part1" /\ view.state = "rendered"
Rendered2 == app = "part2" /\ view.state = "rendered"

\* The current run has put this element on the page.
Drawn(name) == app \in {"part1", "part2"} /\ name \in DOMAIN view

Raw1(metric) ==
    BaseResult(rides,
        BASE_QUERY_TEMPLATE(metric, view.params.date_range[1], view.params.date_range[2],
                            view.params.time_range[1], view.params.time_range[2]))

Raw2 ==
    Part2Sql(orders,
        H3Query(view.params.resolution, view.params.dimension, view.params.measure))

\* The rows of a raw result that the run's filter keeps.
Kept1(metric) ==
    {x \in Raw1(metric) :
        view.params.selected_h3 = "All" \/ x.H3 = view.params.selected_h3}

Kept2 ==
    {x \in Raw2 :
        \/ view.params.score_range = NoRange
        \/ /\ view.params.score_range[1] <= x.COUNT
           /\ x.COUNT <= view.params.score_range[2]}

\* The colour of row x on the scale of the whole result raw.
FullColor(raw, x) == rgb_bytes_tuple(COLOR_PALETTE, quantile(raw), 4 * x.COUNT)

Colored(raw, kept) ==
    {[H3 |-> x.H3, COUNT |-> x.COUNT, COLOR |-> FullColor(raw, x)] : x \in kept}

Metrics == {"pickups", "forecast"}

\* C1 (colour-scale stability): the rows a run displays are the rows of the
\* raw result that pass the cell filter (Part 1) or the score filter
\* (Part 2), each with the colour it has on the quantile scale of the whole
\* unfiltered result.
C1_ColorScaleStable ==
    /\ \A m \in Metrics : Drawn(m) => view[m].data = Colored(Raw1(m), Kept1(m))
    /\ Drawn("map") => view.map.data = Colored(Raw2, Kept2)

\* A displayed row whose colour on the scale of the displayed rows alone
\* would be another one: the filter removed rows that set the scale.
C1_Witness ==
    /\ Rendered2
    /\ view.map.state = "map"
    /\ view.map.data # {}
    /\ Kept2 # Raw2
    /\ \E r \in view.map.data : r.COLOR # FullColor(Kept2, r)

\* The rides of the table that the time-series filter is to keep: date in
\* [start_date, end_date], hour in [start_time, end_time], cell selected.
InWindow(e) ==
    /\ view.params.date_range[1] <= e.day
    /\ e.day <= view.params.date_range[2]
    /\ view.params.time_range[1] <= e.hour
    /\ e.hour <= view.params.time_range[2]

Retained ==
    {e \in rides :
        /\ InWindow(e)
        /\ view.params.selected_h3 = "All" \/ e.h3 = view.params.selected_h3}

\* C3 (time-series filtering): the timestamps of the series are those of
\* the rides whose date and hour lie in the inclusive ranges; with
\* start_time > end_time the series is empty and the run ends normally
\* with the warning.
C3_TimeSeriesWindow ==
    Rendered1 =>
        /\ {r.PICKUP_TIME : r \in view.series.data} = {<<e.day, e.hour>> : e \in Retained}
        /\ view.params.time_range[1] > view.params.time_range[2] =>
               view.series = [state |-> "warning", data |-> {}]

\* A ride on the last day at the last hour of the window is kept, and one
\* outside the window is dropped.
C3_Witness ==
    /\ Rendered1
    /\ view.params.selected_h3 = "All"
    /\ \E e \in rides :
           /\ e.day = view.params.date_range[2]
           /\ e.hour = view.params.time_range[2]
           /\ e.hour > view.params.time_range[1]
           /\ <<e.day, e.hour>> \in {r.PICKUP_TIME : r \in view.series.data}
    /\ \E e \in rides : ~InWindow(e)

\* C4 (time-series aggregation): one point per timestamp of the retained
\* rides, its PICKUPS the sum of their pickups and its FORECAST the sum of
\* their forecasts at that timestamp.
C4_TimeSeriesSums ==
    Rendered1 =>
        /\ \A r1, r2 \in view.series.data : r1.PICKUP_TIME = r2.PICKUP_TIME => r1 = r2
        /\ \A r \in view.series.data :
               LET at == {e \in Retained : <<e.day, e.hour>> = r.PICKUP_TIME}
               IN  /\ at # {}
                   /\ r.PICKUPS = SumCol(at, "pickups")
                   /\ r.FORECAST = SumCol(at, "forecast")
        /\ \A e \in Retained : \E r \in view.series.data : r.PICKUP_TIME = <<e.day, e.hour>>

\* Two rides of different cells at one timestamp, no cell filter: one point
\* with both sums, the two sums different.
C4_Witness ==
    /\ Rendered1
    /\ view.params.selected_h3 = "All"
    /\ \E e1, e2 \in Retained :
           /\ e1.h3 # e2.h3
           /\ e1.day = e2.day /\ e1.hour = e2.hour
           /\ \E r \in view.series.data :
                  /\ r.PICKUP_TIME = <<e1.day, e1.hour>>
                  /\ r.PICKUPS = 2
                  /\ r.FORECAST = 1

\* C6 (empty result): a map whose displayed rows are none ends in the
\* warning, and so does an empty series; Series.quantile is never given an
\* empty frame; no run ends in an error.
C6_EmptyIsNoData ==
    /\ \A m \in Metrics :
           Drawn(m) => ((Kept1(m) = {}) <=> (view[m].state = "warning"))
    /\ Drawn("series") => ((Retained = {}) <=> (view.series.state = "warning"))
    /\ Drawn("map") => ((Kept2 = {}) <=> (view.map.state = "warning"))
    /\ Drawn("quantiled") => {} \notin view.quantiled
    /\ view.state # "error"

\* The cell filter removed every row of a non-empty result: the quantiles
\* were taken on the whole result and the map is the warning.
C6_Witness ==
    /\ Rendered1
    /\ Raw1("pickups") # {}
    /\ Kept1("pickups") = {}
    /\ view.pickups.state = "warning"
    /\ view.quantiled # {}
    /\ Raw1("forecast") # {}

\* C7 (quantile breaks): the five breaks of a non-empty series never
\* decrease; the first is the least value and the last is the greatest.
C7_BreaksOrdered ==
    (app = "mapper" /\ view.state \in {"breaks", "color"}) =>
        /\ \A k \in 1..4 : view.breaks[k] <= view.breaks[k + 1]
        /\ view.breaks[1] = 4 * Min({view.values[i] : i \in 1..Len(view.values)})
        /\ view.breaks[5] = 4 * Max({view.values[i] : i \in 1..Len(view.values)})

\* Breaks that fall between two data values (an interpolated quartile).
C7_Witness ==
    /\ app = "mapper"
    /\ view.state = "breaks"
    /\ Len(view.values) >= 3
    /\ view.breaks[2] % 4 # 0
    /\ view.breaks[1] < view.breaks[2]
    /\ view.breaks[4] < view.breaks[5]

\* The maps of the two programs.
MapNames == {"pickups", "forecast", "map"}

\* C8 (idempotence): a map displays the (cell, value, colour) rows that
\* the first display with the same parameters had, whatever ran in
\* between: complete runs with other parameters, served from the memo or
\* not, and runs ended at any point, also between a loader's return and
\* the script's use of the frame.
C8_Idempotent ==
    \A n \in MapNames :
        Drawn(n) =>
            /\ <<view.params, n>> \in DOMAIN first
            /\ view[n].data = first[<<view.params, n>>].rows

\* Three displays of one session: the first, a second of the same query
\* with another score range (served from the memo and filtered otherwise),
\* and a third with the parameters of the first, again from the memo (the
\* session has executed one query), of a result that the filter cut down
\* to rows whose colours the removed rows decide.
C8_Witness ==
    /\ runs = 3
    /\ Rendered2
    /\ Cardinality(sent) = 1
    /\ first[<<view.params, "map">>].run = 1
    /\ \E k \in DOMAIN first :
           /\ first[k].run = 2
           /\ k[1].resolution = view.params.resolution
           /\ k[1].measure = view.params.measure
           /\ k[1].score_range # view.params.score_range
           /\ first[k].rows # first[<<view.params, "map">>].rows
    /\ Kept2 # Raw2
    /\ \E r \in view.map.data : r.COLOR # FullColor(Kept2, r)

Gray == [j \in 1..3 |-> COLOR_PALETTE[1][j]]
Red == [j \in 1..3 |-> COLOR_PALETTE[6][j]]

\* The colours a "middle of the palette" can mean for six colours: the
\* third, the fourth, or the blend half way between them.
MiddleColors ==
    {[j \in 1..3 |-> COLOR_PALETTE[3][j]],
     [j \in 1..3 |-> COLOR_PALETTE[4][j]],
     [j \in 1..3 |-> ByteOf(COLOR_PALETTE[3][j] + COLOR_PALETTE[4][j], 2)]}

AllBreaksEqual == \A k \in 1..5 : view.breaks[k] = view.breaks[1]

\* C10 as stated: with all five breaks equal, every value maps to the
\* middle colour of the palette.
C10_MiddleColor ==
    (app = "mapper" /\ view.state = "color" /\ AllBreaksEqual) =>
        view.color \in MiddleColors

\* C10 as the code has it: with all five breaks equal to b, a value at or
\* below b (every value of the series itself) maps to the first colour of
\* the palette, gray, and a value above b to the last, red.
C10_FirstOrLastColor ==
    (app = "mapper" /\ view.state = "color" /\ AllBreaksEqual) =>
        view.color = IF 4 * view.value <= view.breaks[1] THEN Gray ELSE Red

\* The one value of a one-valued series, coloured.
C10_Witness ==
    /\ app = "mapper"
    /\ view.state = "color"
    /\ AllBreaksEqual
    /\ Len(view.values) >= 2
    /\ 4 * view.value = view.breaks[1]
    /\ view.color = Gray

C2_SpatialMatchesSeries ==
    Rendered1 =>
        /\ SumCol(view.pickups.data, "COUNT") = SumCol(view.series.data, "PICKUPS")
        /\ SumCol(view.forecast.data, "COUNT") = SumCol(view.series.data, "FORECAST")

\* The intensity the claim asks for, for a greatest value mx.
GuardedElevation(mx) ==
    IF mx > 0 THEN [divide |-> TRUE, by |-> mx] ELSE [divide |-> FALSE, by |-> 0]

ElevationGuarded(map) ==
    map.state = "map" =>
        map.get_elevation = GuardedElevation(Max({r.COUNT : r \in map.data}))

\* C9 (intensity guard): every rendered map divides by its greatest value
\* when that is positive and has intensity 0 otherwise, in both programs.
C9_IntensityGuarded ==
    \A n \in MapNames : Drawn(n) => ElevationGuarded(view[n])

====
